---------------------------- MODULE Spec2Model ----------------------------
(***************************************************************************)
(* A model of budbee-js: the authenticated request layer (src/src/rest.ts, *)
(* class RESTClient) and the endpoint methods built on it                  *)
(* (src/src/index.ts, class Client).                                       *)
(*                                                                         *)
(* JavaScript values are tagged records [t |-> <type>, v |-> <content>].   *)
(* An object is an ordered list of <<key, value>> properties, so that the  *)
(* object spread and JSON.stringify act on it as they do in the runtime.   *)
(* A JSON text is [valid, doc]: either the text of the JSON document doc,  *)
(* or a text that is no JSON at all.                                       *)
(***************************************************************************)
EXTENDS Integers, Sequences, FiniteSets, TLC

VARIABLES
    config,    \* the config object the caller passed in; this.config aliases it
    auth,      \* this.auth, the token computed by the constructor
    ctor,      \* the values config held when the constructor ran
    calls,     \* per call slot: the request sent and the state of its promises
    aborted,   \* the AbortSignals that have been triggered
    tz         \* the runtime's local time zone, as hours east of UTC

vars == <<config, auth, ctor, calls, aborted, tz>>

---------------------------------------------------------------------------
(* JavaScript values *)

Undefined == [t |-> "undefined"]
Null      == [t |-> "null"]
Str(s)    == [t |-> "string", v |-> s]
Num(n)    == [t |-> "number", v |-> n]
Bool(b)   == [t |-> "boolean", v |-> b]
Arr(s)    == [t |-> "array", v |-> s]
Obj(p)    == [t |-> "object", v |-> p]
Date(h)   == [t |-> "date", v |-> h]      \* time value, in hours since the epoch

\* `${x}` and "..." + x : the string conversion of a value
ToStr(x) ==
    CASE x.t = "string"    -> x.v
      [] x.t = "number"    -> ToString(x.v)
      [] x.t = "boolean"   -> IF x.v THEN "true" ELSE "false"
      [] x.t = "undefined" -> "undefined"
      [] x.t = "null"      -> "null"
      [] OTHER             -> "[object Object]"

\* the truthiness of a value, as `cond ? a : b` takes it
Truthy(x) ==
    CASE x.t = "boolean"   -> x.v
      [] x.t = "undefined" -> FALSE
      [] x.t = "null"      -> FALSE
      [] x.t = "string"    -> x.v # ""
      [] x.t = "number"    -> x.v # 0
      [] OTHER             -> TRUE

\* a parameter default (param = d): taken when the argument is undefined
Default(x, d) == IF x = Undefined THEN d ELSE x

Keys(p) == {p[i][1] : i \in 1..Len(p)}

\* obj[k] on a property list: the value, or undefined when k is absent
Get(p, k) ==
    IF k \in Keys(p)
    THEN LET i == CHOOSE j \in 1..Len(p) : p[j][1] = k IN p[i][2]
    ELSE Undefined

\* obj[k] = v: an existing key keeps its place, a new key goes last
Put(p, k, v) ==
    IF k \in Keys(p)
    THEN [i \in 1..Len(p) |-> IF p[i][1] = k THEN <<k, v>> ELSE p[i]]
    ELSE Append(p, <<k, v>>)

\* {...a, ...b}: the properties of b are put onto a, in b's order
RECURSIVE Spread(_, _)
Spread(a, b) ==
    IF b = <<>> THEN a
    ELSE Spread(Put(a, Head(b)[1], Head(b)[2]), Tail(b))

\* ...x in an object literal: undefined and null spread to nothing
Props(x) == IF x.t = "object" THEN x.v ELSE <<>>

---------------------------------------------------------------------------
(* JSON *)

\* JSON.stringify: the document of a value. A property whose value is
\* undefined is left out; an undefined array element becomes null.
RECURSIVE Stringify(_)
RECURSIVE StringifyProps(_)
RECURSIVE StringifyItems(_)
Stringify(x) ==
    CASE x.t = "object" -> Obj(StringifyProps(x.v))
      [] x.t = "array"  -> Arr(StringifyItems(x.v))
      [] OTHER          -> x
StringifyProps(p) ==
    IF p = <<>> THEN <<>>
    ELSE IF Head(p)[2] = Undefined THEN StringifyProps(Tail(p))
    ELSE <<<<Head(p)[1], Stringify(Head(p)[2])>>>> \o StringifyProps(Tail(p))
StringifyItems(s) ==
    IF s = <<>> THEN <<>>
    ELSE <<IF Head(s) = Undefined THEN Null ELSE Stringify(Head(s))>>
         \o StringifyItems(Tail(s))

JSONText(x) == [valid |-> TRUE, doc |-> Stringify(x)]
NotJSON(s)  == [valid |-> FALSE, doc |-> Str(s)]

---------------------------------------------------------------------------
(* Buffer.from(s).toString("base64"), on a string of ASCII code units *)

B64Alphabet ==
    <<"A","B","C","D","E","F","G","H","I","J","K","L","M","N","O","P",
      "Q","R","S","T","U","V","W","X","Y","Z","a","b","c","d","e","f",
      "g","h","i","j","k","l","m","n","o","p","q","r","s","t","u","v",
      "w","x","y","z","0","1","2","3","4","5","6","7","8","9","+","/">>

B64Char(n) == B64Alphabet[n + 1]

RECURSIVE Base64(_)
Base64(b) ==
    IF Len(b) = 0 THEN ""
    ELSE IF Len(b) = 1 THEN
        B64Char(b[1] \div 4) \o B64Char((b[1] % 4) * 16) \o "=="
    ELSE IF Len(b) = 2 THEN
        B64Char(b[1] \div 4) \o B64Char((b[1] % 4) * 16 + b[2] \div 16)
        \o B64Char((b[2] % 16) * 4) \o "="
    ELSE
        B64Char(b[1] \div 4) \o B64Char((b[1] % 4) * 16 + b[2] \div 16)
        \o B64Char((b[2] % 16) * 4 + b[3] \div 64) \o B64Char(b[3] % 64)
        \o Base64(SubSeq(b, 4, Len(b)))

\* `${config.key}:${config.secret}`, 58 being the colon
KeySecret(c) == c.key \o <<58>> \o c.secret

---------------------------------------------------------------------------
(* Intl.DateTimeFormat("sv-SE").format: the date's day in the local zone,  *)
(* written with the locale's pattern y-MM-dd                               *)

\* the civil date <<year, month, day>> of a count of days since 1970-01-01
CivilFromDays(days) ==
    LET z   == days + 719468
        era == z \div 146097
        doe == z - era * 146097
        yoe == (doe - doe \div 1460 + doe \div 36524 - doe \div 146096) \div 365
        doy == doe - (365 * yoe + yoe \div 4 - yoe \div 100)
        mp  == (5 * doy + 2) \div 153
        d   == doy - (153 * mp + 2) \div 5 + 1
        m   == IF mp < 10 THEN mp + 3 ELSE mp - 9
        y   == yoe + era * 400 + (IF m <= 2 THEN 1 ELSE 0)
    IN  <<y, m, d>>

TwoDigit(n) == IF n < 10 THEN "0" \o ToString(n) ELSE ToString(n)

dateFmt(date, zone) ==
    LET c == CivilFromDays((date.v + zone) \div 24)
    IN  ToString(c[1]) \o "-" \o TwoDigit(c[2]) \o "-" \o TwoDigit(c[3])

\* [a, b].join(sep)
Join(s, sep) ==
    IF Len(s) = 0 THEN ""
    ELSE LET RECURSIVE J(_)
             J(i) == IF i = Len(s) THEN s[i] ELSE s[i] \o sep \o J(i + 1)
         IN  J(1)

---------------------------------------------------------------------------
(* fetch: Headers, Response, and the promises of a call *)

\* the byte-lowercased header name, for the names the model uses
Lower(name) ==
    CASE name = "Authorization" -> "authorization"
      [] name = "Content-Type"  -> "content-type"
      [] name = "X-Request-Id"  -> "x-request-id"
      [] OTHER                  -> name

\* Headers.append: a name already in the list has the value joined to its own
HeadersAppend(h, name, value) ==
    IF Lower(name) \in Keys(h)
    THEN Put(h, Lower(name), Str(Get(h, Lower(name)).v \o ", " \o ToStr(value)))
    ELSE Put(h, Lower(name), Str(ToStr(value)))

\* new Headers(record): every property of the record is appended
RECURSIVE NewHeaders(_)
NewHeaders(p) ==
    IF p = <<>> THEN <<>>
    ELSE LET last == p[Len(p)]
         IN  HeadersAppend(NewHeaders(SubSeq(p, 1, Len(p) - 1)), last[1], last[2])

\* Headers.get
HeadersGet(h, name) == IF Lower(name) \in Keys(h) THEN Get(h, Lower(name)) ELSE Null

Response(status, body) == [t |-> "response", status |-> status, body |-> body]
Error(name)            == [t |-> "error", name |-> name]

Pending      == [kind |-> "pending"]
Fulfilled(v) == [kind |-> "fulfilled", value |-> v]
Rejected(e)  == [kind |-> "rejected", reason |-> e]

\* res.json(): the document of the body, or the parser's SyntaxError
ResJson(res) ==
    IF res.body.valid THEN Fulfilled(res.body.doc) ELSE Rejected(Error("SyntaxError"))

\* .then(res => res[k]): reading a property of null or undefined throws
ThenProp(p, k) ==
    IF p.kind # "fulfilled" THEN p
    ELSE IF p.value.t \in {"null", "undefined"} THEN Rejected(Error("TypeError"))
    ELSE Fulfilled(Get(Props(p.value), k))

\* .then(res => res.json())
ThenJson(p) == IF p.kind # "fulfilled" THEN p ELSE ResJson(p.value)

---------------------------------------------------------------------------
(* RESTClient (src/src/rest.ts) *)

Production == "https://api.budbee.com"
Staging    == "https://api.staging.budbee.com"

StatusMin == 200
StatusMax == 399

\* an optional field of a request descriptor
Field(req, f) == IF f \in DOMAIN req THEN req[f] ELSE Undefined

\* the constructor: this.config = config; this.auth = base64(key:secret)
Construct(c) ==
    /\ config = c
    /\ ctor = c
    /\ auth = Base64(KeySecret(c))

\* AuthToken with a fault: the token recomputed from the config at each request
AuthTokenRecomputed == Base64(KeySecret(config))

\* this.auth, as a request reads it
AuthToken == auth

\* const url = this.config.test ? staging : production
BaseURL == IF Truthy(config.test) THEN Staging ELSE Production

\* RequestHeaders with a fault: the caller's headers below the layer's
RequestHeadersAuthLast(req) ==
    NewHeaders(Spread(Props(Field(req, "headers")),
                      <<<<"Authorization", Str("Basic " \o AuthToken)>>>>))

\* new Headers({Authorization: `Basic ${this.auth}`, ...req.headers})
RequestHeaders(req) ==
    NewHeaders(Spread(<<<<"Authorization", Str("Basic " \o AuthToken)>>>>,
                      Props(Field(req, "headers"))))

\* the arguments of the fetch call
FetchArgs(req) ==
    [url     |-> BaseURL \o "/" \o req.path,
     body    |-> Field(req, "body"),
     headers |-> RequestHeaders(req),
     method  |-> req.method,
     signal  |-> Field(req, "signal")]

\* Classify with a fault: the upper limit of success at 299
ClassifyOnly2xx(res) ==
    IF res.status < StatusMin \/ res.status > 299 THEN Rejected(res) ELSE Fulfilled(res)

\* .then(res => { if (res.status < 200 || res.status > 399) throw res; return res; })
Classify(res) ==
    IF res.status < StatusMin \/ res.status > StatusMax THEN Rejected(res) ELSE Fulfilled(res)

\* Then with a fault: every endpoint parses the body of the response
ThenAlwaysJson(then, p) ==
    CASE then = "lockers" -> ThenProp(ThenJson(p), "lockers")
      [] then = "url"     -> ThenProp(ThenJson(p), "url")
      [] OTHER            -> ThenJson(p)

\* Then with a fault: the parsed document is returned as it is
ThenNoUnwrap(then, p) == IF then = "response" THEN p ELSE ThenJson(p)

\* the handlers an endpoint chains on the promise of the request layer
Then(then, p) ==
    CASE then = "json"    -> ThenJson(p)
      [] then = "lockers" -> ThenProp(ThenJson(p), "lockers")
      [] then = "url"     -> ThenProp(ThenJson(p), "url")
      [] OTHER            -> p

IdleCall ==
    [pc |-> "idle", op |-> "", args |-> <<>>, req |-> [method |-> "", path |-> ""],
     then |-> "", sent |-> <<>>, fetched |-> Pending, layer |-> Pending,
     result |-> Pending]

\* Settled with a fault: a failed call is sent once more
SettledWithRetry(c, fetched) ==
    LET layer == IF fetched.kind = "fulfilled" THEN Classify(fetched.value) ELSE fetched
    IN  IF layer.kind = "rejected" /\ Len(c.sent) = 1
        THEN [c EXCEPT !.sent = Append(@, @[1])]
        ELSE [c EXCEPT !.pc = "settled", !.fetched = fetched, !.layer = layer,
                       !.result = Then(c.then, layer)]

\* the promise of fetch settles: the promise of request() and the promise the
\* endpoint returned settle from it, through their handlers
Settled(c, fetched) ==
    LET layer == IF fetched.kind = "fulfilled" THEN Classify(fetched.value) ELSE fetched
    IN  [c EXCEPT !.pc = "settled", !.fetched = fetched, !.layer = layer,
                  !.result = Then(c.then, layer)]

\* request(req): one fetch; a signal that is already aborted rejects at once
request(id, op, args, req, then) ==
    /\ calls[id].pc # "pending"
    /\ LET c == [pc |-> "pending", op |-> op, args |-> args, req |-> req,
                 then |-> then, sent |-> <<FetchArgs(req)>>, fetched |-> Pending,
                 layer |-> Pending, result |-> Pending]
       IN  calls' = [calls EXCEPT ![id] =
                        IF Field(req, "signal") \in aborted
                        THEN Settled(c, Rejected(Error("AbortError")))
                        ELSE c]
    /\ UNCHANGED <<config, auth, ctor, aborted, tz>>

delete(id, op, args, req, then) == request(id, op, args, req @@ [method |-> "DELETE"], then)
get(id, op, args, req, then) == request(id, op, args, req @@ [method |-> "GET"], then)
post(id, op, args, req, then) == request(id, op, args, req @@ [method |-> "POST"], then)
put(id, op, args, req, then) == request(id, op, args, req @@ [method |-> "PUT"], then)

---------------------------------------------------------------------------
(* Client (src/src/index.ts): one action per endpoint method. An omitted   *)
(* argument is passed as Undefined.                                        *)

warehouses(id) ==
    get(id, "warehouses", <<>>,
        [path    |-> "users/collection-points",
         headers |-> Obj(<<<<"Content-Type", Str("application/vnd.budbee.users-v1+json")>>>>)],
        "json")

warehouseInRegion(id, postalCode, countryCode) ==
    get(id, "warehouseInRegion", <<postalCode, countryCode>>,
        [path    |-> "postalcodes/validate/" \o ToStr(Default(countryCode, Str("SE")))
                       \o "/" \o ToStr(postalCode),
         headers |-> Obj(<<<<"Content-Type", Str("application/vnd.budbee.postalcodes-v2+json")>>>>)],
        "json")

postalCodes(id, countryCode) ==
    get(id, "postalCodes", <<countryCode>>,
        [path    |-> "postalcodes/" \o ToStr(Default(countryCode, Str("SE"))),
         headers |-> Obj(<<<<"Content-Type", Str("application/vnd.budbee.postalcodes-v1+json")>>>>)],
        "json")

\* IntervalSegment with a fault: the two dates joined in the other order
IntervalSegmentToFrom(interval, zone) ==
    IF interval.t = "number" THEN ToStr(interval)
    ELSE Join(<<dateFmt(Get(interval.v, "to"), zone),
                dateFmt(Get(interval.v, "from"), zone)>>, "/")

\* typeof interval === "number" ? interval : [fmt(from), fmt(to)].join("/")
IntervalSegment(interval, zone) ==
    IF interval.t = "number" THEN ToStr(interval)
    ELSE Join(<<dateFmt(Get(interval.v, "from"), zone),
                dateFmt(Get(interval.v, "to"), zone)>>, "/")

deliveryWindows(id, postalCode, interval, countryCode) ==
    get(id, "deliveryWindows", <<postalCode, interval, countryCode>>,
        [path    |-> "intervals/" \o ToStr(Default(countryCode, Str("SE"))) \o "/"
                       \o ToStr(postalCode) \o "/" \o IntervalSegment(interval, tz),
         headers |-> Obj(<<<<"Content-Type", Str("application/vnd.budbee.intervals-v2+json")>>>>)],
        "json")

order(id, orderId) ==
    get(id, "order", <<orderId>>,
        [path    |-> "multiple/orders/" \o ToStr(orderId),
         headers |-> Obj(<<<<"Content-Type", Str("application/vnd.budbee.multiple.orders-v1+json")>>>>)],
        "json")

createOrder(id, payload) ==
    post(id, "createOrder", <<payload>>,
        [path    |-> "multiple/orders",
         body    |-> JSONText(payload),
         headers |-> Obj(<<<<"Content-Type", Str("application/vnd.budbee.multiple.orders-v2+json")>>>>)],
        "json")

updateDeliveryConsumerInfo(id, orderId, info) ==
    put(id, "updateDeliveryConsumerInfo", <<orderId, info>>,
        [path    |-> "multiple/orders/" \o ToStr(orderId),
         body    |-> JSONText(info),
         headers |-> Obj(<<<<"Content-Type", Str("application/vnd.budbee.multiple.orders-v1+json")>>>>)],
        "json")

cancelOrder(id, orderId) ==
    delete(id, "cancelOrder", <<orderId>>,
        [path    |-> "multiple/orders/" \o ToStr(orderId),
         headers |-> Obj(<<<<"Content-Type", Str("application/vnd.budbee.multiple.orders-v1+json")>>>>)],
        "response")

addParcels(id, orderId, parcels) ==
    post(id, "addParcels", <<orderId, parcels>>,
        [path    |-> "multiple/orders/" \o ToStr(orderId) \o "/parcels",
         body    |-> JSONText(parcels),
         headers |-> Obj(<<<<"Content-Type", Str("application/vnd.budbee.multiple.orders-v2+json")>>>>)],
        "json")

removeParcel(id, orderId, parcelId) ==
    delete(id, "removeParcel", <<orderId, parcelId>>,
        [path    |-> "multiple/orders/" \o ToStr(orderId) \o "/parcels/"
                       \o ToStr(parcelId),
         headers |-> Obj(<<<<"Content-Type", Str("application/vnd.budbee.multiple.orders-v1+json")>>>>)],
        "response")

orderTracker(id, orderId) ==
    get(id, "orderTracker", <<orderId>>,
        [path    |-> "multiple/orders/" \o ToStr(orderId) \o "/tracking-url",
         headers |-> Obj(<<<<"Content-Type", Str("application/vnd.budbee.multiple.orders-v1+json")>>>>)],
        "url")

parcelTracker(id, parcelId) ==
    get(id, "parcelTracker", <<parcelId>>,
        [path    |-> "parcels/" \o ToStr(parcelId) \o "/tracking-url",
         headers |-> Obj(<<<<"Content-Type", Str("application/vnd.budbee.parcels-v1+json")>>>>)],
        "url")

createPickup(id, pickup) ==
    post(id, "createPickup", <<pickup>>,
        [path    |-> "returns",
         body    |-> JSONText(pickup),
         headers |-> Obj(<<<<"Content-Type", Str("application/vnd.budbee.returns-v1+json")>>>>)],
        "json")

createDropOff(id, dropOff) ==
    post(id, "createDropOff", <<dropOff>>,
        [path    |-> "box/return",
         body    |-> JSONText(dropOff),
         headers |-> Obj(<<<<"Content-Type", Str("application/vnd.budbee.standalone-box-returns-v1+json")>>>>)],
        "json")

locker(id, lockerId) ==
    get(id, "locker", <<lockerId>>,
        [path    |-> "boxes/" \o ToStr(lockerId),
         headers |-> Obj(<<<<"Content-Type", Str("application/vnd.budbee.boxes-v1+json")>>>>)],
        "json")

lockers(id, countryCode) ==
    get(id, "lockers", <<countryCode>>,
        [path    |-> "boxes/all/" \o ToStr(Default(countryCode, Str("SE"))),
         headers |-> Obj(<<<<"Content-Type", Str("application/vnd.budbee.boxes-v1+json")>>>>)],
        "lockers")

lockersInRegion(id, postalCode, countryCode) ==
    get(id, "lockersInRegion", <<postalCode, countryCode>>,
        [path    |-> "boxes/postalcodes/validate/" \o ToStr(Default(countryCode, Str("SE")))
                       \o "/" \o ToStr(postalCode),
         headers |-> Obj(<<<<"Content-Type", Str("application/vnd.budbee.boxes-v1+json")>>>>)],
        "lockers")

\* BoxOrder with a fault: the payload spread over the injected fields
BoxOrderPayloadLast(lockerId, delivery) ==
    Obj(Spread(<<<<"productCodes", Arr(<<Str("DLVBOX")>>)>>,
                 <<"boxDelivery", Obj(<<<<"selectedBox", lockerId>>>>)>>>>,
               Props(delivery)))

\* {...delivery, productCodes: ["DLVBOX"], boxDelivery: {selectedBox: lockerId}}
BoxOrder(lockerId, delivery) ==
    Obj(Put(Put(Spread(<<>>, Props(delivery)),
                "productCodes", Arr(<<Str("DLVBOX")>>)),
            "boxDelivery", Obj(<<<<"selectedBox", lockerId>>>>)))

createBoxOrder(id, lockerId, delivery) ==
    post(id, "createBoxOrder", <<lockerId, delivery>>,
        [path    |-> "multiple/orders",
         body    |-> JSONText(BoxOrder(lockerId, delivery)),
         headers |-> Obj(<<<<"Content-Type", Str("application/vnd.budbee.multiple.orders-v2+json")>>>>)],
        "json")

---------------------------------------------------------------------------
(* The environment: the network, the AbortControllers, the caller *)

\* the fetch of call id is answered with a response
fetchFulfilled(id, status, body) ==
    /\ calls[id].pc = "pending"
    /\ calls' = [calls EXCEPT ![id] = Settled(@, Fulfilled(Response(status, body)))]
    /\ UNCHANGED <<config, auth, ctor, aborted, tz>>

\* the fetch of call id fails in transport
fetchRejected(id) ==
    /\ calls[id].pc = "pending"
    /\ calls' = [calls EXCEPT ![id] = Settled(@, Rejected(Error("NetworkError")))]
    /\ UNCHANGED <<config, auth, ctor, aborted, tz>>

\* AbortHits with a fault: an abort takes every pending call with it
AbortHitsAll(c, signal) == c.pc = "pending"

\* the calls an abort of signal ends: the pending ones whose fetch was given it
AbortHits(c, signal) == c.pc = "pending" /\ c.sent[1].signal = signal

\* controller.abort() on the controller of signal
abort(signal) ==
    /\ signal \notin aborted
    /\ aborted' = aborted \cup {signal}
    /\ calls' = [id \in DOMAIN calls |->
                    IF AbortHits(calls[id], signal)
                    THEN Settled(calls[id], Rejected(Error("AbortError")))
                    ELSE calls[id]]
    /\ UNCHANGED <<config, auth, ctor, tz>>

\* the caller writes a field of the config object it passed to the constructor
setKey(k) ==
    /\ config.key # k
    /\ config' = [config EXCEPT !.key = k]
    /\ UNCHANGED <<auth, ctor, calls, aborted, tz>>

setSecret(k) ==
    /\ config.secret # k
    /\ config' = [config EXCEPT !.secret = k]
    /\ UNCHANGED <<auth, ctor, calls, aborted, tz>>

setTest(b) ==
    /\ config.test # b
    /\ config' = [config EXCEPT !.test = b]
    /\ UNCHANGED <<auth, ctor, calls, aborted, tz>>

\* a caller of the request layer itself, with a descriptor of its own
requestDirect(id, method, headers, signal) ==
    request(id, "request", <<method, headers, signal>>,
            [method |-> method, path |-> "ping", headers |-> headers, signal |-> signal],
            "response")

---------------------------------------------------------------------------
(* Bounds and inputs *)

MaxCalls    == 2      \* call slots that may be in flight together
MaxHalfDays == 3      \* instants taken each side of 2024-01-01T00:00Z, 12 h apart

CallIds == 1..MaxCalls

\* "a", "ab" and "x", "xy" as ASCII code units
KeyStrings    == {<<97>>, <<97, 98>>}
SecretStrings == {<<120>>, <<120, 121>>}
TestFlags     == {Bool(TRUE), Bool(FALSE), Undefined}
Configs       == [key : KeyStrings, secret : SecretStrings, test : TestFlags]

Signal(n) == [t |-> "signal", v |-> n]
Signals   == {Signal("s1"), Signal("s2")}

Statuses == {199, 200, 399, 400, 500}

LockersEnvelope == Obj(<<<<"lockers", Arr(<<Obj(<<<<"id", Str("L1")>>>>)>>)>>>>)
UrlEnvelope     == Obj(<<<<"url", Str("https://budbee.com/t/1")>>>>)

Bodies ==
    {NotJSON(""), NotJSON("OK"), JSONText(Null),
     JSONText(LockersEnvelope), JSONText(UrlEnvelope)}

CallerHeaders ==
    {Undefined,
     Obj(<<<<"X-Request-Id", Str("1")>>>>),
     Obj(<<<<"Authorization", Str("Bearer other")>>>>),
     Obj(<<<<"authorization", Str("Bearer other")>>>>)}

OrderIds     == {Str("o1")}
ParcelIds    == {Num(7)}
PostalCodes  == {Str("11453"), Num(11453)}
CountryCodes == {Undefined, Str("NL")}
LockerIds    == {Str("L1"), Null, Undefined}

SomePayload == Obj(<<<<"collectionId", Num(1)>>, <<"requireSignature", Bool(FALSE)>>>>)

\* order payloads: the fields in both orders, with the optional ones absent,
\* undefined or set, and with a boxDelivery of their own
BoxPayloads ==
    LET base == <<<<"collectionId", Num(1)>>>>
        pc   == {<<>>, <<<<"productCodes", Undefined>>>>,
                 <<<<"productCodes", Arr(<<Str("DLV")>>)>>>>}
        as   == {<<>>, <<<<"additionalServices", Undefined>>>>,
                 <<<<"additionalServices", Obj(<<<<"numberOfMissRetries", Num(2)>>>>)>>>>}
        bd   == {<<>>, <<<<"boxDelivery", Obj(<<<<"selectedBox", Str("OLD")>>>>)>>>>}
    IN  {Obj(p \o base \o a \o b) : p \in pc, a \in as, b \in bd}
        \cup {Obj(b \o a \o base \o p) : p \in pc, a \in as, b \in bd}

\* instants, in hours since the epoch: around 2024-01-01T00:00Z (hour 473352),
\* 2024-01-07T00:00Z, and around the leap day of 2024
Instants ==
    {473352 + 12 * k : k \in -MaxHalfDays..MaxHalfDays}
    \cup {473352 + 144, 473352 + 59 * 24 - 1, 473352 + 59 * 24, 473352 + 60 * 24}

Intervals ==
    {Num(1), Num(7)}
    \cup {Obj(<<<<"from", Date(a)>>, <<"to", Date(b)>>>>) : a \in Instants, b \in Instants}

\* Los Angeles, UTC, Stockholm, Auckland in January
TimeZones == {-8, 0, 1, 13}

---------------------------------------------------------------------------
(* Specifications *)

InitCalls ==
    /\ calls = [id \in CallIds |-> IdleCall]
    /\ aborted = {}

\* One client, used for one call after another by a caller who also holds
\* the config object: every endpoint, the request layer itself, the network.
Init ==
    /\ \E c \in Configs : Construct(c)
    /\ InitCalls
    /\ tz = 1

Endpoints(id) ==
    \/ warehouses(id)
    \/ \E p \in PostalCodes, c \in CountryCodes : warehouseInRegion(id, p, c)
    \/ \E c \in CountryCodes : postalCodes(id, c)
    \/ \E c \in CountryCodes : deliveryWindows(id, Str("11453"), Num(7), c)
    \/ \E o \in OrderIds : order(id, o)
    \/ createOrder(id, SomePayload)
    \/ \E o \in OrderIds : updateDeliveryConsumerInfo(id, o, SomePayload)
    \/ \E o \in OrderIds : cancelOrder(id, o)
    \/ \E o \in OrderIds : addParcels(id, o, Arr(<<SomePayload>>))
    \/ \E o \in OrderIds, p \in ParcelIds : removeParcel(id, o, p)
    \/ \E o \in OrderIds : orderTracker(id, o)
    \/ \E p \in ParcelIds : parcelTracker(id, p)
    \/ createPickup(id, SomePayload)
    \/ createDropOff(id, SomePayload)
    \/ \E l \in {Str("L1")} : locker(id, l)
    \/ \E c \in CountryCodes : lockers(id, c)
    \/ \E p \in PostalCodes, c \in CountryCodes : lockersInRegion(id, p, c)
    \/ createBoxOrder(id, Str("L1"), SomePayload)

Network(id) ==
    \/ \E s \in Statuses, b \in Bodies : fetchFulfilled(id, s, b)
    \/ fetchRejected(id)

Caller ==
    \/ \E k \in KeyStrings : setKey(k)
    \/ \E k \in SecretStrings : setSecret(k)
    \/ \E b \in TestFlags : setTest(b)

Next ==
    \/ Endpoints(1)
    \/ \E h \in CallerHeaders, s \in {Undefined, Signal("s1")} :
           requestDirect(1, "GET", h, s)
    \/ Network(1)
    \/ abort(Signal("s1"))

Spec == Init /\ [][Next]_vars

\* The same client while the caller writes to the config object it passed in.
NextAuth ==
    \/ Endpoints(1)
    \/ \E h \in CallerHeaders : requestDirect(1, "GET", h, Undefined)
    \/ fetchFulfilled(1, 200, JSONText(LockersEnvelope))
    \/ Caller

SpecAuth == Init /\ [][NextAuth]_vars

\* Several calls in flight on one client, each with a signal or none.
InitConcurrent ==
    /\ Construct([key |-> <<97>>, secret |-> <<120>>, test |-> Bool(TRUE)])
    /\ InitCalls
    /\ tz = 1

NextConcurrent ==
    \/ \E id \in CallIds, o \in OrderIds : cancelOrder(id, o)
    \/ \E id \in CallIds, s \in Signals \cup {Undefined} :
           requestDirect(id, "GET", Undefined, s)
    \/ \E id \in CallIds, s \in {200, 400} : fetchFulfilled(id, s, NotJSON(""))
    \/ \E id \in CallIds : fetchRejected(id)
    \/ \E s \in Signals : abort(s)

SpecConcurrent == InitConcurrent /\ [][NextConcurrent]_vars

\* createBoxOrder over the locker ids and the order payloads.
NextBox ==
    \/ \E l \in LockerIds, d \in BoxPayloads : createBoxOrder(1, l, d)
    \/ \E s \in {200, 400} : fetchFulfilled(1, s, JSONText(SomePayload))

SpecBox == InitConcurrent /\ [][NextBox]_vars

\* deliveryWindows over the intervals, in every time zone of the runtime.
InitWindows ==
    /\ Construct([key |-> <<97>>, secret |-> <<120>>, test |-> Undefined])
    /\ InitCalls
    /\ tz \in TimeZones

NextWindows ==
    \/ \E p \in PostalCodes, i \in Intervals, c \in CountryCodes :
           deliveryWindows(1, p, i, c)
    \/ \E s \in {200, 400} : fetchFulfilled(1, s, JSONText(Arr(<<>>)))

SpecWindows == InitWindows /\ [][NextWindows]_vars

---------------------------------------------------------------------------
(* Properties *)

Started(c)  == c.pc # "idle"
Answered(c) == c.pc = "settled" /\ c.fetched.kind = "fulfilled"
Hosts       == {"https://api.budbee.com", "https://api.staging.budbee.com"}

\* C1: a response with a status from 200 to 399 resolves the request with
\* that response; a response with any other status fails it, and the failure
\* value is that response itself, status included, whose body nobody parsed
\* (the endpoint's own promise fails with the same response).
C1_StatusDecidesOutcome ==
    \A id \in CallIds :
        LET c == calls[id] IN
        Answered(c) =>
            IF 200 <= c.fetched.value.status /\ c.fetched.value.status <= 399
            THEN c.layer = Fulfilled(c.fetched.value)
            ELSE /\ c.layer = Rejected(c.fetched.value)
                 /\ c.layer.reason.t = "response"
                 /\ c.layer.reason.status = c.fetched.value.status
                 /\ c.result = c.layer

C1_Witness ==
    \E id \in CallIds :
        /\ Answered(calls[id])
        /\ calls[id].fetched.value.status = 400
        /\ calls[id].then = "json"
        /\ calls[id].result = Rejected(Response(400, NotJSON("")))

\* base64 of key:secret for the credentials of the model (RFC 4648)
B64Expected(key, secret) ==
    CASE key = <<97>>     /\ secret = <<120>>      -> "YTp4"
      [] key = <<97>>     /\ secret = <<120, 121>> -> "YTp4eQ=="
      [] key = <<97, 98>> /\ secret = <<120>>      -> "YWI6eA=="
      [] key = <<97, 98>> /\ secret = <<120, 121>> -> "YWI6eHk="

\* C2: every request an endpoint operation issues carries
\* Authorization = "Basic " + base64(key:secret) of the key and secret the
\* constructor was given, whatever the config object holds by then.
C2_AuthorizationFromConstruction ==
    \A id \in CallIds :
        LET c == calls[id] IN
        Started(c) /\ c.op # "request" =>
            \A i \in 1..Len(c.sent) :
                HeadersGet(c.sent[i].headers, "Authorization")
                    = Str("Basic " \o B64Expected(ctor.key, ctor.secret))

C2_Witness ==
    \E id \in CallIds :
        /\ calls[id].pc = "pending"
        /\ calls[id].op = "warehouses"
        /\ config.key # ctor.key
        /\ config.secret # ctor.secret
        /\ HeadersGet(calls[id].sent[1].headers, "Authorization") = Str("Basic YTp4")

HostOf(test) == IF test = Bool(TRUE) THEN "https://api.staging.budbee.com"
                ELSE "https://api.budbee.com"

\* C3: every request of a client goes to the host its construction chose:
\* staging when test was true, production when it was false or absent,
\* whatever the caller does afterwards.
C3_HostFixedAtConstruction ==
    \A id \in CallIds :
        LET c == calls[id] IN
        Started(c) =>
            \A i \in 1..Len(c.sent) :
                c.sent[i].url = HostOf(ctor.test) \o "/" \o c.req.path

\* C10 as stated: whatever headers the descriptor carries, the request sent
\* has the Authorization value the layer set.
C10_AuthorizationNeverReplaced ==
    \A id \in CallIds :
        LET c == calls[id] IN
        Started(c) =>
            HeadersGet(c.sent[1].headers, "Authorization") = Str("Basic " \o auth)

\* C10, amended: the request sent always has an Authorization header. It is
\* the layer's "Basic <token>" when the descriptor's headers name none; a
\* header named Authorization in the descriptor replaces the layer's value,
\* and one named authorization is joined to it. Other headers are added.
C10_AuthorizationUnlessOverridden ==
    \A id \in CallIds :
        LET c      == calls[id]
            given  == Props(Field(c.req, "headers"))
            sentAs == HeadersGet(c.sent[1].headers, "Authorization")
        IN  Started(c) =>
            /\ sentAs # Null
            /\ "Authorization" \in Keys(given) =>
                   sentAs = Get(given, "Authorization")
            /\ "authorization" \in Keys(given) =>
                   sentAs = Str("Basic " \o auth \o ", " \o Get(given, "authorization").v)
            /\ Keys(given) \cap {"Authorization", "authorization"} = {} =>
                   sentAs = Str("Basic " \o auth)
            /\ \A k \in Keys(given) \ {"Authorization", "authorization"} :
                   HeadersGet(c.sent[1].headers, k) = Get(given, k)

C10_Witness ==
    \E id \in CallIds :
        /\ calls[id].pc = "pending"
        /\ calls[id].op = "request"
        /\ Get(Props(Field(calls[id].req, "headers")), "Authorization") = Str("Bearer other")
        /\ HeadersGet(calls[id].sent[1].headers, "Authorization") = Str("Bearer other")

Cancelled == Rejected(Error("AbortError"))

\* what the response of a call, and nothing else, makes of its request
ByOwnResponse(c) ==
    IF 200 <= c.fetched.value.status /\ c.fetched.value.status <= 399
    THEN c.layer = Fulfilled(c.fetched.value)
    ELSE c.layer = Rejected(c.fetched.value)

C4_Isolated ==
    \A id \in CallIds :
        LET c == calls[id] IN
        /\ c.pc = "pending" => c.sent[1].signal \notin aborted
        /\ c.pc = "settled" /\ c.result = Cancelled =>
               c.sent[1].signal \in aborted /\ c.fetched = Cancelled
        /\ Answered(c) => ByOwnResponse(c)
        /\ Started(c) /\ c.op # "request" => c.sent[1].signal = Undefined

C4_AbortStep ==
    \A s \in Signals :
        s \notin aborted /\ s \in aborted' =>
            \A id \in CallIds :
                IF calls[id].pc = "pending" /\ calls[id].sent[1].signal = s
                THEN calls'[id].pc = "settled" /\ calls'[id].result = Cancelled
                ELSE calls'[id] = calls[id]

\* C4 as stated: triggering the signal of a call in flight fails that call
\* with the cancellation error and leaves every other call as it was.
C4_AbortHitsExactlyOneCall ==
    [][\A id \in CallIds :
          /\ calls[id].pc = "pending"
          /\ calls[id].sent[1].signal \in Signals \ aborted
          /\ calls[id].sent[1].signal \in aborted'
          => /\ calls'[id].result = Cancelled
             /\ \A other \in CallIds \ {id} : calls'[other] = calls[other]]_vars

\* C4, amended: a call of the request layer carries the signal it was given,
\* or none, and the endpoint methods give none. Triggering a signal fails
\* every call in flight that carries that signal with the cancellation
\* error, and leaves every call that carries another signal or none as it
\* was: such a call is never cancelled and ends as its own response decides.
C4_CancellationHitsOnlyItsCall == []C4_Isolated /\ [][C4_AbortStep]_vars

C4_Witness ==
    \E i \in CallIds, j \in CallIds :
        /\ calls[i].result = Cancelled
        /\ calls[i].sent[1].signal = Signal("s1")
        /\ Answered(calls[j])
        /\ calls[j].sent[1].signal = Signal("s2")
        /\ aborted = {Signal("s1")}
        /\ calls[j].result = Fulfilled(Response(200, NotJSON("")))

\* C5: a call makes one fetch and no more, also after it has failed; it ends
\* fulfilled or rejected, and a failure reaches the caller as it arose: the
\* error of the transport or of the abort, the response whose status is
\* outside 200..399, the error of the JSON parser.
C5_OneRequestOneOutcome ==
    \A id \in CallIds :
        LET c == calls[id] IN
        Started(c) =>
            /\ Len(c.sent) = 1
            /\ c.pc = "pending" => c.result = Pending
            /\ c.pc = "settled" =>
                /\ c.result.kind \in {"fulfilled", "rejected"}
                /\ c.fetched.kind = "rejected" => c.result = c.fetched
                /\ Answered(c) /\ ~(200 <= c.fetched.value.status
                                    /\ c.fetched.value.status <= 399) =>
                       c.result = Rejected(c.fetched.value)
                /\ Answered(c) /\ c.layer.kind = "fulfilled" /\ c.then # "response"
                       /\ ~c.fetched.value.body.valid =>
                       c.result = Rejected(Error("SyntaxError"))

C5_Witness ==
    \E id \in CallIds :
        /\ calls[id].op = "createOrder"
        /\ calls[id].pc = "settled"
        /\ Len(calls[id].sent) = 1
        /\ calls[id].fetched = Fulfilled(Response(200, NotJSON("OK")))
        /\ calls[id].result = Rejected(Error("SyntaxError"))

\* C8: cancelOrder and removeParcel send a DELETE to multiple/orders/{id} and
\* to multiple/orders/{id}/parcels/{parcelId}; a response with a status from
\* 200 to 399 resolves them with that response whatever its body, and they
\* fail only as the request layer fails.
C8_DeleteWithoutParsing ==
    \A id \in CallIds :
        LET c == calls[id] IN
        Started(c) /\ c.op \in {"cancelOrder", "removeParcel"} =>
            /\ c.sent[1].method = "DELETE"
            /\ c.op = "cancelOrder" /\ c.args = <<Str("o1")>> =>
                   c.sent[1].url \in {h \o "/multiple/orders/o1" : h \in Hosts}
            /\ c.op = "removeParcel" /\ c.args = <<Str("o1"), Num(7)>> =>
                   c.sent[1].url \in {h \o "/multiple/orders/o1/parcels/7" : h \in Hosts}
            /\ c.sent[1].body = Undefined
            /\ Answered(c) /\ 200 <= c.fetched.value.status
                    /\ c.fetched.value.status <= 399 =>
                   c.result = Fulfilled(c.fetched.value)
            /\ c.pc = "settled" => c.result = c.layer

C8_Witness ==
    \E id \in CallIds :
        /\ calls[id].op = "cancelOrder"
        /\ calls[id].sent[1].method = "DELETE"
        /\ calls[id].result = Fulfilled(Response(200, NotJSON("")))

Envelope(op) == IF op \in {"lockers", "lockersInRegion"} THEN "lockers" ELSE "url"

\* C9: lockers and lockersInRegion resolve to what the lockers field of the
\* response's document holds, orderTracker and parcelTracker to what its url
\* field holds: the caller receives the field, not the document around it.
C9_EnvelopeUnwrapped ==
    \A id \in CallIds :
        LET c == calls[id] IN
        /\ c.op \in {"lockers", "lockersInRegion", "orderTracker", "parcelTracker"}
        /\ c.pc = "settled" /\ c.result.kind = "fulfilled"
        =>
            LET doc == c.fetched.value.body.doc IN
            /\ c.fetched.value.body.valid
            /\ doc.t = "object" => c.result.value = Get(doc.v, Envelope(c.op))
            /\ c.result.value # doc
            /\ c.fetched.value.body = JSONText(LockersEnvelope) /\ Envelope(c.op) = "lockers"
                   => c.result.value = Arr(<<Obj(<<<<"id", Str("L1")>>>>)>>)
            /\ c.fetched.value.body = JSONText(UrlEnvelope) /\ Envelope(c.op) = "url"
                   => c.result.value = Str("https://budbee.com/t/1")

C9_Witness ==
    \E id \in CallIds :
        /\ calls[id].op = "lockers"
        /\ calls[id].fetched = Fulfilled(Response(200, JSONText(LockersEnvelope)))
        /\ calls[id].result = Fulfilled(Arr(<<Obj(<<<<"id", Str("L1")>>>>)>>))

\* C6: createBoxOrder posts to multiple/orders a JSON document that is the
\* payload with productCodes = ["DLVBOX"] and boxDelivery = {selectedBox:
\* lockerId}: those two fields hold the injected values whatever the payload
\* held there, every other field of the payload reads as it does in the
\* payload, and nothing else is in the document.
C6_BoxOrderBody ==
    \A id \in CallIds :
        LET c == calls[id] IN
        Started(c) /\ c.op = "createBoxOrder" =>
            LET lockerId == c.args[1]
                payload  == c.args[2].v
                body     == c.sent[1].body
                doc      == body.doc.v
                injected == {"productCodes", "boxDelivery"}
            IN  /\ c.sent[1].method = "POST"
                /\ c.sent[1].url \in {h \o "/multiple/orders" : h \in Hosts}
                /\ body.valid /\ body.doc.t = "object"
                /\ Cardinality(Keys(doc)) = Len(doc)
                /\ Get(doc, "productCodes") = Arr(<<Str("DLVBOX")>>)
                /\ Get(doc, "boxDelivery").t = "object"
                /\ Keys(Get(doc, "boxDelivery").v) \subseteq {"selectedBox"}
                /\ Get(Get(doc, "boxDelivery").v, "selectedBox") = lockerId
                /\ Keys(doc) \subseteq Keys(payload) \cup injected
                /\ \A k \in Keys(payload) \ injected : Get(doc, k) = Get(payload, k)

C6_Witness ==
    \E id \in CallIds :
        /\ calls[id].op = "createBoxOrder"
        /\ calls[id].args[1] = Str("L1")
        /\ Get(calls[id].args[2].v, "productCodes") = Arr(<<Str("DLV")>>)
        /\ Get(calls[id].args[2].v, "additionalServices") # Undefined
        /\ Get(calls[id].sent[1].body.doc.v, "productCodes") = Arr(<<Str("DLVBOX")>>)

LeapYear(y) == y % 4 = 0 /\ (y % 100 # 0 \/ y % 400 = 0)

DaysInMonth(y, m) ==
    IF m = 2 THEN (IF LeapYear(y) THEN 29 ELSE 28)
    ELSE IF m \in {4, 6, 9, 11} THEN 30 ELSE 31

\* the days from 1970-01-01 to the first day of year y, for y from 1970 on
DaysBeforeYear(y) ==
    365 * (y - 1970) + (y - 1969) \div 4 - (y - 1901) \div 100 + (y - 1601) \div 400

RECURSIVE DaysBeforeMonth(_, _)
DaysBeforeMonth(y, m) ==
    IF m = 1 THEN 0 ELSE DaysBeforeMonth(y, m - 1) + DaysInMonth(y, m - 1)

\* YYYY-MM-DD of the calendar day that holds an instant in a time zone: the
\* year, then the month, then the day that the count of days falls in
IsoDay(hours, zone) ==
    LET n == (hours + zone) \div 24
        y == CHOOSE t \in 2023..2025 :
                 DaysBeforeYear(t) <= n /\ n < DaysBeforeYear(t + 1)
        r == n - DaysBeforeYear(y)
        m == CHOOSE t \in 1..12 :
                 DaysBeforeMonth(y, t) <= r /\ r < DaysBeforeMonth(y, t) + DaysInMonth(y, t)
        d == r - DaysBeforeMonth(y, m) + 1
    IN  ToString(y) \o "-"
        \o (IF m < 10 THEN "0" ELSE "") \o ToString(m) \o "-"
        \o (IF d < 10 THEN "0" ELSE "") \o ToString(d)

\* C7: deliveryWindows sends a GET to intervals/{country}/{postal}/{interval},
\* the country being SE when none is given; {interval} is the number itself
\* for a number, and for a date range the calendar day of from and that of
\* to (the day each instant falls on in the runtime's time zone), each as
\* YYYY-MM-DD, from first, with one slash between them.
C7_DeliveryWindowsPath ==
    \A id \in CallIds :
        LET c == calls[id] IN
        Started(c) /\ c.op = "deliveryWindows" =>
            LET postal   == c.args[1]
                interval == c.args[2]
                country  == c.args[3]
                segment  ==
                    IF interval.t = "number"
                    THEN (IF interval.v = 7 THEN "7" ELSE ToString(interval.v))
                    ELSE IsoDay(Get(interval.v, "from").v, tz) \o "/"
                         \o IsoDay(Get(interval.v, "to").v, tz)
            IN  /\ c.sent[1].method = "GET"
                /\ c.sent[1].url \in
                       {h \o "/intervals/"
                          \o (IF country = Undefined THEN "SE" ELSE country.v)
                          \o "/11453/" \o segment : h \in Hosts}

C7_Witness ==
    \E id \in CallIds :
        /\ calls[id].op = "deliveryWindows"
        /\ tz = 1
        /\ calls[id].args =
               <<Str("11453"),
                 Obj(<<<<"from", Date(473352)>>, <<"to", Date(473352 + 144)>>>>),
                 Undefined>>
        /\ calls[id].sent[1].url =
               "https://api.budbee.com/intervals/SE/11453/2024-01-01/2024-01-07"

=============================================================================
